---- MODULE Spec2Model ----
(***************************************************************************)
(* Model of src/app.py: the Streamlit sales application.                   *)
(*                                                                         *)
(*   - forecasting_main: one script run of the "Sales Forecasting" page   *)
(*     (institution filter, Prophet trend forecast, simple moving         *)
(*     average, size-ratio profile, the three result tabs).               *)
(*   - tracking_main: the "Daily Sales Tracking" page, one script run per *)
(*     pressed button (Save Entry, Delete Selected Entries).              *)
(*                                                                         *)
(* Numbers: pandas computes the ratios and means in float64; the model     *)
(* computes them as exact fractions num/den, with the two non-finite       *)
(* float values a division by a zero total produces (inf, NaN) kept as     *)
(* separate kinds. Python's round() and Series.round() round half to even. *)
(*                                                                         *)
(* Left out, as they change none of the state above: the "Show Raw Data"   *)
(* checkbox, tab2 (size-wise history chart), the download button, the      *)
(* "Sales Analysis" charts of the tracking page, and its debug panel       *)
(* (Reload Data, Clear Cache). A failed load of actual_sales.csv returns   *)
(* before anything is computed and is not a state of the model.            *)
(***************************************************************************)
EXTENDS Integers, Sequences, FiniteSets, TLC

(***************************************************************************)
(* Bounds of the model                                                     *)
(***************************************************************************)
\* rows of actual_sales.csv
MaxRows == 2
\* largest Total_Sales cell of a row whose total is not tied to its sizes
MaxTotal == 3
\* rows the in-session tracking table may hold
MaxTrackRows == 2

\* slider "SMA Window (years)": min, max
SMA_WINDOW_MIN == 1
SMA_WINDOW_MAX == 3
\* "need at least 2 years"
MIN_OBSERVATIONS == 2

(***************************************************************************)
(* Input domains                                                           *)
(***************************************************************************)
\* institutions named in actual_sales.csv
Institutions == {"A", "B"}
\* Sale_Date values, annual data: a date is its year
Dates == {2021, 2022}
\* the Size_<n> columns of actual_sales.csv: the three sizes the page
\* preselects (default=[8, 9, 10] must be among the columns)
Sizes == {8, 9, 10}
\* values of one Size_<n> cell of actual_sales.csv
CellValues == {0, 1}
\* what a successful Prophet fit may return after round()
YhatOutcomes == {-1, 0, 1, 2}

\* Python values: an integer, None, or a local name never assigned on the
\* path taken (reading it raises UnboundLocalError)
IntV(n) == [kind |-> "int", v |-> n]
None == [kind |-> "None", v |-> 0]
Unbound == [kind |-> "Unbound", v |-> 0]

(***************************************************************************)
(* Arithmetic helpers                                                      *)
(***************************************************************************)
Abs(x) == IF x < 0 THEN -x ELSE x

RECURSIVE SetSum(_, _)
\* sum of f[x] over the finite set S
SetSum(f, S) ==
    IF S = {} THEN 0
    ELSE LET x == CHOOSE y \in S : TRUE
         IN  f[x] + SetSum(f, S \ {x})

RECURSIVE SeqSum(_)
\* sum of a sequence of integers
SeqSum(s) == IF s = <<>> THEN 0 ELSE Head(s) + SeqSum(Tail(s))

\* round(num/den), den > 0: Python 3 round() and numpy round, half to even
RoundHalfEven(num, den) ==
    LET f == num \div den
        r == num % den
    IN  IF 2 * r < den THEN f
        ELSE IF 2 * r > den THEN f + 1
        ELSE IF f % 2 = 0 THEN f ELSE f + 1

(***************************************************************************)
(* State                                                                   *)
(***************************************************************************)
VARIABLES
    \* forecasting page
    df_wide,        \* load_forecast_data(): rows of actual_sales.csv, file order
    pc,             \* where the last run of forecasting_main ended
    exception,      \* exception that left forecasting_main, or None
    selected_inst,  \* st.selectbox("Select Institution:")
    inst_data,      \* df_wide filtered to selected_inst
    prophet_total,  \* prophet_forecast(): Unbound (not called), None (failed) or an integer
    sma_window,     \* st.slider("SMA Window (years)")
    sma_total,      \* round(mean(tail(sma_window)))
    size_ratios,    \* per size: mean over the rows of Size_<n> / Total_Sales
    future_date,    \* assigned only inside "if prophet_total:"
    fig_total,      \* names of the traces added to the Total Sales figure
    chart_shown,    \* st.plotly_chart(fig_total) was reached
    forecast_df,    \* the Forecast Details table, or None
    details_shown,  \* st.subheader("Forecast Details") was reached
    messages,       \* st.warning / st.error texts emitted
    \* tracking page
    sales_data,     \* st.session_state.sales_data: rows with their index labels
    csv_file,       \* daily_sales.csv as last written
    new_entry,      \* the entry built by the last Save Entry run, or None
    last_op         \* button pressed in the last run of tracking_main

forecast_vars == <<df_wide, pc, exception, selected_inst, inst_data, prophet_total,
                   sma_window, sma_total, size_ratios, future_date, fig_total,
                   chart_shown, forecast_df, details_shown, messages>>
tracking_vars == <<sales_data, csv_file, new_entry, last_op>>
vars == <<forecast_vars, tracking_vars>>

(***************************************************************************)
(* Forecasting page: data                                                  *)
(***************************************************************************)
\* Total of the Size_<n> cells of one row
SumSizes(cells) == SetSum(cells, DOMAIN cells)

\* rows of actual_sales.csv whose Total_Sales is the sum of the size columns
ConsistentRows ==
    {[Institution |-> i, Sale_Date |-> d, Total_Sales |-> SumSizes(c), cells |-> c] :
        i \in Institutions, d \in Dates, c \in [Sizes -> CellValues]}

\* tables of at most MaxRows rows, in file order
Tables(rows) == UNION {[1..n -> rows] : n \in 0..MaxRows}

\* files as the loader accepts them: Total_Sales is a column of its own, never
\* compared with the size columns. One institution, one row per year in
\* ascending order: the estimators and the ratios read only the selected
\* institution's totals and size cells
RawTable(f) ==
    [i \in DOMAIN f |->
        [Institution |-> "A", Sale_Date |-> 2020 + i,
         Total_Sales |-> f[i][1], cells |-> f[i][2]]]

\* df_wide['Institution'].unique()
UniqueInstitutions(df) == {df[i].Institution : i \in DOMAIN df}

\* df_wide[df_wide['Institution'] == selected_inst]: a boolean mask keeps
\* the rows in the order of the file
FilterInstitution(df, inst) == SelectSeq(df, LAMBDA r : r.Institution = inst)

\* the guard with "< 1": a single observation is let through
InsufficientDataOffByOne(data) == Len(data) < MIN_OBSERVATIONS - 1

\* len(inst_data) < 2
InsufficientData(data) == Len(data) < MIN_OBSERVATIONS

(***************************************************************************)
(* Forecasting page: estimators                                            *)
(***************************************************************************)
\* prophet_forecast(): the fit and predict are the library's; any exception
\* is caught and None returned, success returns round(yhat)
ProphetOutcomes == {None} \cup {IntV(y) : y \in YhatOutcomes}

\* Series.head(k) in the place of tail(k): the first k rows
HeadRows(data, k) ==
    IF k >= Len(data) THEN data ELSE SubSeq(data, 1, k)

\* Series.tail(k): the last k rows in row order, all rows when k >= n
TailRows(data, k) ==
    IF k >= Len(data) THEN data ELSE SubSeq(data, Len(data) - k + 1, Len(data))

\* round(inst_data['Total_Sales'].tail(sma_window).mean())
SmaForecast(data, k) ==
    LET w == TailRows(data, k)
        totals == [i \in DOMAIN w |-> w[i].Total_Sales]
    IN  RoundHalfEven(SeqSum(totals), Len(w))

(***************************************************************************)
(* Forecasting page: size ratios                                           *)
(***************************************************************************)
Fin(n, d) == [kind |-> "fin", num |-> n, den |-> d]
Inf == [kind |-> "inf", num |-> 1, den |-> 0]
NaN == [kind |-> "nan", num |-> 0, den |-> 0]

\* DataFrame.div on one cell: q / t in float64; a zero total gives inf
\* for q > 0 and NaN for q = 0
CellRatio(q, t) ==
    IF t # 0 THEN Fin(q, t) ELSE IF q > 0 THEN Inf ELSE NaN

RECURSIVE FracSum(_)
\* sum of a sequence of finite fractions, as one fraction
FracSum(s) ==
    IF s = <<>> THEN Fin(0, 1)
    ELSE LET h == Head(s)
             r == FracSum(Tail(s))
         IN  Fin(h.num * r.den + r.num * h.den, h.den * r.den)

\* DataFrame.sum() in the place of mean(): the column is not divided by
\* its count
ColumnSum(col) ==
    LET present == SelectSeq(col, LAMBDA x : x.kind # "nan")
    IN  IF present = <<>> THEN NaN
        ELSE IF \E i \in DOMAIN present : present[i].kind = "inf" THEN Inf
        ELSE FracSum(present)

\* DataFrame.mean() of one column: NaN cells are skipped (skipna), a column
\* of only NaN gives NaN, an inf cell makes the mean inf
ColumnMean(col) ==
    LET present == SelectSeq(col, LAMBDA x : x.kind # "nan")
    IN  IF present = <<>> THEN NaN
        ELSE IF \E i \in DOMAIN present : present[i].kind = "inf" THEN Inf
        ELSE LET t == FracSum(present)
             IN  Fin(t.num, t.den * Len(present))

\* inst_data.filter(regex='Size_').div(inst_data['Total_Sales'], axis=0).mean()
SizeRatios(data) ==
    [s \in Sizes |->
        ColumnMean([i \in DOMAIN data |-> CellRatio(data[i].cells[s], data[i].Total_Sales)])]

\* every ratio is a finite float
AllFinite(ratios) == \A s \in DOMAIN ratios : ratios[s].kind = "fin"

\* (size_ratios * total).round(), one size; ratios finite
Allocate(ratio, total) == RoundHalfEven(ratio.num * total, ratio.den)

(***************************************************************************)
(* Forecasting page: the tabs                                              *)
(***************************************************************************)
\* "if prophet_total:" is Python truthiness: None and 0 are both false
Truthy(x) == x.kind = "int" /\ x.v # 0

\* max(Sale_Date) + DateOffset(years=1)
NextYear(data) ==
    LET ds == {data[i].Sale_Date : i \in DOMAIN data}
    IN  (CHOOSE d \in ds : \A e \in ds : e <= d) + 1

\* with tab1: the figure, the future date, and the exception if one is raised
Tab1(data, prophet, sma) ==
    LET fd == IF Truthy(prophet) THEN IntV(NextYear(data)) ELSE Unbound
        traces == IF Truthy(prophet) THEN {"Historical", "Prophet Forecast"}
                  ELSE {"Historical"}
    IN  IF fd = Unbound
        THEN [future_date |-> fd, fig |-> traces, shown |-> FALSE,
              exc |-> "UnboundLocalError"]
        ELSE [future_date |-> fd, fig |-> traces \cup {"SMA"}, shown |-> TRUE,
              exc |-> "None"]

\* forecast_df before it is built
NoTable == [kind |-> "None", rows |-> <<>>]

\* with tab3: the Forecast Details table, a warning, or the exception
\* astype(int) raises on a non-finite value
Tab3(ratios, prophet, sma) ==
    IF Truthy(prophet)
    THEN IF AllFinite(ratios)
         THEN [details |-> TRUE,
               df |-> [kind |-> "table",
                       rows |-> [s \in Sizes |->
                                   [prophet |-> Allocate(ratios[s], prophet.v),
                                    sma |-> Allocate(ratios[s], sma.v)]]],
               msg |-> {}, exc |-> "None"]
         ELSE [details |-> TRUE, df |-> NoTable, msg |-> {}, exc |-> "ValueError"]
    ELSE [details |-> FALSE, df |-> NoTable,
          msg |-> {"No forecast available to show details"}, exc |-> "None"]

(***************************************************************************)
(* Forecasting page: one run of forecasting_main                           *)
(***************************************************************************)
\* st.selectbox over the file's institutions; None when there are none
Selectable(df) ==
    IF df = <<>> THEN {"None"} ELSE UniqueInstitutions(df)

\* the run returns at the insufficient-data guard: nothing after it is bound
ReturnInsufficient(inst, data) ==
    /\ pc' = "insufficient"
    /\ exception' = "None"
    /\ selected_inst' = inst
    /\ inst_data' = data
    /\ prophet_total' = Unbound
    /\ sma_window' = Unbound
    /\ sma_total' = Unbound
    /\ size_ratios' = Unbound
    /\ future_date' = Unbound
    /\ fig_total' = {}
    /\ chart_shown' = FALSE
    /\ forecast_df' = NoTable
    /\ details_shown' = FALSE
    /\ messages' = {"Insufficient data for forecasting (need at least 2 years)"}

\* the run goes through the forecast section and the tabs
RunForecast(inst, data, prophet, k) ==
    LET sma == IntV(SmaForecast(data, k))
        ratios == SizeRatios(data)
        t1 == Tab1(data, prophet, sma)
        t3 == Tab3(ratios, prophet, sma)
        failed == IF prophet = None THEN {"Prophet forecast failed"} ELSE {}
    IN  /\ selected_inst' = inst
        /\ inst_data' = data
        /\ prophet_total' = prophet
        /\ sma_window' = IntV(k)
        /\ sma_total' = sma
        /\ size_ratios' = ratios
        /\ future_date' = t1.future_date
        /\ fig_total' = t1.fig
        /\ chart_shown' = t1.shown
        /\ IF t1.exc # "None"
           THEN /\ pc' = "raised"
                /\ exception' = t1.exc
                /\ forecast_df' = NoTable
                /\ details_shown' = FALSE
                /\ messages' = failed
           ELSE /\ pc' = IF t3.exc # "None" THEN "raised" ELSE "done"
                /\ exception' = t3.exc
                /\ forecast_df' = t3.df
                /\ details_shown' = t3.details
                /\ messages' = failed \cup t3.msg

\* forecasting_main(): the script run for one choice of the widgets and one
\* outcome of the Prophet fit
forecasting_main ==
    /\ pc = "start"
    /\ \E inst \in Selectable(df_wide), prophet \in ProphetOutcomes,
       k \in SMA_WINDOW_MIN..SMA_WINDOW_MAX :
        LET data == FilterInstitution(df_wide, inst)
        IN  IF InsufficientData(data)
            THEN ReturnInsufficient(inst, data)
            ELSE RunForecast(inst, data, prophet, k)
    /\ UNCHANGED <<df_wide, tracking_vars>>

(***************************************************************************)
(* Tracking page: data                                                     *)
(***************************************************************************)
\* TRACKING_INSTITUTIONS
TRACKING_INSTITUTIONS == {"Retail Store A", "Online Store", "Outlet Store"}
\* TRACKING_SIZE_RANGE is range(4, 16) in the source; the model keeps its
\* first two sizes
TRACKING_SIZE_RANGE == {4, 5}
\* dates st.date_input may return, as day numbers
EntryDates == {1, 2}
\* values of one st.number_input (min_value=0)
EntryValues == {0, 1}

\* new_entry before any Save Entry run
NoEntry == [kind |-> "None"]

\* init_tracking_dataframe(): no rows
init_tracking_dataframe == <<>>

\* the subset of columns drop_duplicates compares
Key(r) == <<r.Date, r.Institution>>

\* index labels of a frame
Labels(df) == {df[i].idx : i \in DOMAIN df}

\* pd.concat([sales_data, DataFrame([new_entry])], ignore_index=True):
\* the entry is appended and the index becomes 0..n
ConcatIgnoreIndex(df, entry) ==
    LET all == Append(df, entry)
    IN  [i \in DOMAIN all |->
            [idx |-> i - 1, Date |-> all[i].Date, Institution |-> all[i].Institution,
             cells |-> all[i].cells, Total |-> all[i].Total]]

\* drop_duplicates(..., keep="first"): the earliest row of each key stays
DropDuplicatesKeepFirst(df) ==
    SelectSeq(df, LAMBDA r :
        ~ \E j \in DOMAIN df : df[j].idx < r.idx /\ Key(df[j]) = Key(r))

\* drop_duplicates(subset=["Date", "Institution"], keep="last"): the latest
\* row of each key stays, with its label; the frame's labels are distinct
DropDuplicatesKeepLast(df) ==
    SelectSeq(df, LAMBDA r :
        ~ \E j \in DOMAIN df : df[j].idx > r.idx /\ Key(df[j]) = Key(r))

\* DataFrame.drop(labels): the rows whose label is listed go
DropLabels(df, labels) == SelectSeq(df, LAMBDA r : r.idx \notin labels)

\* df.to_csv(index=False): the rows without the index
ToCsv(df) ==
    [i \in DOMAIN df |->
        [Date |-> df[i].Date, Institution |-> df[i].Institution,
         cells |-> df[i].cells, Total |-> df[i].Total]]

\* the form's total with one input left out of the sum
EntryTotalSkipsLast(size_values) ==
    LET last == CHOOSE s \in DOMAIN size_values : \A t \in DOMAIN size_values : t <= s
    IN  SetSum(size_values, DOMAIN size_values \ {last})

\* total = sum(size_values.values())
EntryTotal(size_values) == SetSum(size_values, DOMAIN size_values)

(***************************************************************************)
(* Tracking page: the runs of tracking_main                                *)
(***************************************************************************)
\* "Save Entry" submitted: build the entry, append, drop duplicates, store
\* in the session and write the file
SaveEntry ==
    \E current_date \in EntryDates, institution \in TRACKING_INSTITUTIONS,
       size_values \in [TRACKING_SIZE_RANGE -> EntryValues] :
        LET entry == [idx |-> 0, Date |-> current_date, Institution |-> institution,
                      cells |-> size_values, Total |-> EntryTotal(size_values)]
            updated_df == DropDuplicatesKeepLast(ConcatIgnoreIndex(sales_data, entry))
        IN  /\ Len(updated_df) <= MaxTrackRows
            /\ sales_data' = updated_df
            /\ csv_file' = ToCsv(updated_df)
            /\ new_entry' = entry
            /\ last_op' = "save"
            /\ UNCHANGED forecast_vars

\* "Delete Selected Entries" pressed with the ticked rows; the section is
\* drawn only for a non-empty table, no tick gives a warning and no change
DeleteSelected ==
    /\ sales_data # <<>>
    /\ \E selected_indices \in SUBSET Labels(sales_data) :
        /\ IF selected_indices # {}
           THEN LET updated_df == DropLabels(sales_data, selected_indices)
                IN  /\ sales_data' = updated_df
                    /\ csv_file' = ToCsv(updated_df)
           ELSE UNCHANGED <<sales_data, csv_file>>
        /\ new_entry' = NoEntry
        /\ last_op' = "delete"
    /\ UNCHANGED forecast_vars

(***************************************************************************)
(* Specifications                                                          *)
(***************************************************************************)
\* the forecasting page before its first run
ForecastIdle ==
    /\ pc = "start"
    /\ exception = "None"
    /\ selected_inst = "None"
    /\ inst_data = <<>>
    /\ prophet_total = Unbound
    /\ sma_window = Unbound
    /\ sma_total = Unbound
    /\ size_ratios = Unbound
    /\ future_date = Unbound
    /\ fig_total = {}
    /\ chart_shown = FALSE
    /\ forecast_df = NoTable
    /\ details_shown = FALSE
    /\ messages = {}

\* the tracking page after load_tracking_data() found no file
TrackingEmpty ==
    /\ sales_data = init_tracking_dataframe
    /\ csv_file = ToCsv(init_tracking_dataframe)
    /\ new_entry = NoEntry
    /\ last_op = "none"

\* main(): Streamlit starts the script again on the next interaction; the
\* locals of the finished run are gone, the cached df_wide stays
Rerun ==
    /\ pc # "start"
    /\ pc' = "start"
    /\ exception' = "None"
    /\ selected_inst' = "None"
    /\ inst_data' = <<>>
    /\ prophet_total' = Unbound
    /\ sma_window' = Unbound
    /\ sma_total' = Unbound
    /\ size_ratios' = Unbound
    /\ future_date' = Unbound
    /\ fig_total' = {}
    /\ chart_shown' = FALSE
    /\ forecast_df' = NoTable
    /\ details_shown' = FALSE
    /\ messages' = {}
    /\ UNCHANGED <<df_wide, tracking_vars>>

\* forecasting over files whose rows have Total_Sales = sum of the sizes
Init ==
    /\ df_wide \in Tables(ConsistentRows)
    /\ ForecastIdle
    /\ TrackingEmpty

Next == forecasting_main \/ Rerun

Spec == Init /\ [][Next]_vars

\* forecasting over files whose totals are not tied to the size columns
InitRaw ==
    /\ \E n \in 0..MaxRows :
        \E f \in [1..n -> (0..MaxTotal) \X [Sizes -> CellValues]] :
            df_wide = RawTable(f)
    /\ ForecastIdle
    /\ TrackingEmpty

SpecRaw == InitRaw /\ [][Next]_vars

\* the tracking page, from an empty table
InitTracking ==
    /\ df_wide = <<>>
    /\ ForecastIdle
    /\ TrackingEmpty

NextTracking == SaveEntry \/ DeleteSelected

SpecTracking == InitTracking /\ [][NextTracking]_vars

(***************************************************************************)
(* Properties                                                              *)
(***************************************************************************)
\* a run of forecasting_main that went past the insufficient-data guard
Forecasted == pc \in {"done", "raised"}

\* C1: when the trend fit fails for an institution with at least 2
\* observations, the run still shows the moving-average aggregate (its
\* marker on the displayed chart) and the moving-average per-size table, and
\* shows no trend marker.
C1_FallbackReport ==
    (Forecasted /\ prophet_total = None) =>
        /\ "SMA" \in fig_total
        /\ chart_shown
        /\ forecast_df.kind = "table"
        /\ "Prophet Forecast" \notin fig_total

\* C2: a run in which the series is too short or the trend fit failed never
\* leaves forecasting_main through an exception: it ends at the guard or runs
\* to the end of the tabs.
C2_NoUnhandledException ==
    (pc # "start" /\ (pc = "insufficient" \/ prophet_total = None)) =>
        /\ exception = "None"
        /\ pc \in {"insufficient", "done"}

\* C3: for an institution with fewer than 2 rows the run ends with the
\* insufficient-data warning before any estimator runs: no trend forecast, no
\* moving average, no ratios, no chart and no per-size table.
C3_InsufficientData ==
    (pc # "start" /\ Len(FilterInstitution(df_wide, selected_inst)) < 2) =>
        /\ pc = "insufficient"
        /\ exception = "None"
        /\ prophet_total = Unbound
        /\ sma_total = Unbound
        /\ size_ratios = Unbound
        /\ fig_total = {}
        /\ forecast_df = NoTable
        /\ ~ details_shown
        /\ messages = {"Insufficient data for forecasting (need at least 2 years)"}

\* C3 witness: the selected institution has exactly one row and the run
\* returned at the guard
C3_Witness ==
    /\ pc = "insufficient"
    /\ Len(inst_data) = 1
    /\ Len(df_wide) = 2

\* C4: the series a forecast uses is in strictly ascending date order (so
\* also has one observation per date).
C4_SeriesSortedUnique ==
    Forecasted =>
        \A i, j \in DOMAIN inst_data :
            i < j => inst_data[i].Sale_Date < inst_data[j].Sale_Date

\* C5: for a series of n >= 2 rows and a window k in 1..n, the moving-average
\* forecast m is a non-negative integer nearest to S/k, S the sum of the
\* totals of rows n-k+1..n, and is the even neighbour when S/k is a tie.
C5_MovingAverage ==
    (Forecasted /\ sma_window.v <= Len(inst_data)) =>
        LET n == Len(inst_data)
            k == sma_window.v
            m == sma_total.v
            totals == [i \in (n - k + 1)..n |-> inst_data[i].Total_Sales]
            S == SetSum(totals, DOMAIN totals)
        IN  /\ n >= 2
            /\ sma_total.kind = "int"
            /\ m >= 0
            /\ 2 * Abs(k * m - S) <= k
            /\ (2 * Abs(k * m - S) = k => m % 2 = 0)

\* C5 witness: a window shorter than the series whose first and last totals
\* differ, and a two-row window whose mean is a tie
C5_Witness ==
    /\ Forecasted
    /\ Len(inst_data) = 2
    /\ \/ /\ sma_window.v = 1
          /\ inst_data[1].Total_Sales > inst_data[2].Total_Sales
          /\ sma_total.v = inst_data[2].Total_Sales
       \/ /\ sma_window.v = 2
          /\ inst_data[1].Total_Sales + inst_data[2].Total_Sales = 3
          /\ sma_total.v = 2

\* C6: in the Forecast Details table the per-size forecasts of each method
\* sum to within ceil(number_of_sizes / 2) of that method's aggregate.
C6_AllocationDrift ==
    forecast_df.kind = "table" =>
        LET rows == forecast_df.rows
            bound == (Cardinality(Sizes) + 1) \div 2
            prophet_sum == SetSum([s \in Sizes |-> rows[s].prophet], Sizes)
            sma_sum == SetSum([s \in Sizes |-> rows[s].sma], Sizes)
        IN  /\ Abs(prophet_sum - prophet_total.v) <= bound
            /\ Abs(sma_sum - sma_total.v) <= bound

\* C6 as amended: when every row of the series has Total_Sales equal to the
\* sum of its size columns, the per-size forecasts of each method sum to
\* within ceil(number_of_sizes / 2) of that method's aggregate.
C6_AllocationDriftConsistent ==
    (/\ forecast_df.kind = "table"
     /\ \A i \in DOMAIN inst_data :
            inst_data[i].Total_Sales = SetSum(inst_data[i].cells, Sizes)) =>
        LET rows == forecast_df.rows
            bound == (Cardinality(Sizes) + 1) \div 2
            prophet_sum == SetSum([s \in Sizes |-> rows[s].prophet], Sizes)
            sma_sum == SetSum([s \in Sizes |-> rows[s].sma], Sizes)
        IN  /\ Abs(prophet_sum - prophet_total.v) <= bound
            /\ Abs(sma_sum - sma_total.v) <= bound

\* C6 witness: a table built from rows whose totals are the sums of their
\* sizes, in which independent rounding moves the moving-average column off
\* its aggregate
C6_Witness ==
    /\ forecast_df.kind = "table"
    /\ \A i \in DOMAIN inst_data :
            inst_data[i].Total_Sales = SetSum(inst_data[i].cells, Sizes)
    /\ SetSum([s \in Sizes |-> forecast_df.rows[s].sma], Sizes) # sma_total.v

\* C7: every ratio of the size-ratio profile is a number in [0, 1].
C7_RatiosInUnitInterval ==
    Forecasted =>
        \A s \in Sizes :
            /\ size_ratios[s].kind = "fin"
            /\ 0 <= size_ratios[s].num
            /\ size_ratios[s].num <= size_ratios[s].den

\* C8: the tracking table holds at most one row per (Date, Institution), and
\* after a Save Entry the one row of the saved key holds the saved values.
C8_OneRowPerKey ==
    /\ \A i, j \in DOMAIN sales_data :
            i # j => Key(sales_data[i]) # Key(sales_data[j])
    /\ last_op = "save" =>
            \E i \in DOMAIN sales_data :
                /\ Key(sales_data[i]) = Key(new_entry)
                /\ sales_data[i].cells = new_entry.cells
                /\ sales_data[i].Total = new_entry.Total

\* C8 witness: a save that replaced an earlier row of the same key (the
\* dropped row leaves a gap in the fresh 0..n index) in a table of two rows
C8_Witness ==
    /\ last_op = "save"
    /\ Len(sales_data) = 2
    /\ Labels(sales_data) = {1, 2}

\* C9: every row of the tracking table has Total equal to the sum of its
\* size columns.
C9_TotalIsSum ==
    \A i \in DOMAIN sales_data :
        sales_data[i].Total = SetSum(sales_data[i].cells, TRACKING_SIZE_RANGE)

\* C9 witness: after a deletion a row with sales in two sizes remains
C9_Witness ==
    /\ last_op = "delete"
    /\ \E i \in DOMAIN sales_data :
        /\ sales_data[i].Total = 2
        /\ \A s \in TRACKING_SIZE_RANGE : sales_data[i].cells[s] = 1

\* C10: whenever the trend fit succeeds, whatever integer it returns, the
\* trend marker is plotted and, the ratios being finite, the Forecast
\* Details table is produced.
C10_SuccessIsPresent ==
    (Forecasted /\ prophet_total.kind = "int") =>
        /\ "Prophet Forecast" \in fig_total
        /\ (AllFinite(size_ratios) => forecast_df.kind = "table")

====
